---- MODULE Spec2Model ----
(***************************************************************************)
(* Model of the feed synchronisation code of firstMove's frontend:         *)
(*   - Home.loadInitialData / Home.loadMoreData   (app/page.tsx)           *)
(*   - fetchNewsData / fetchLatestNews / fetchMoreNews and the synthetic   *)
(*     fallback generatePaginatedMockData         (services/newsService.ts)*)
(*   - ApiClient.request                          (lib/apiClient.ts)       *)
(*                                                                         *)
(* React state is modelled as committed atomically: a handler that is      *)
(* invoked closes over the state of the latest render, and the code after  *)
(* an await runs as one step that still sees the values captured when the  *)
(* handler was invoked (page, allNews, hasMore, isLoadingMore) while       *)
(* functional updates (setAllNews(prev => ...)) and refs                   *)
(* (prevNewsIdsRef.current) see the current values.                        *)
(***************************************************************************)
EXTENDS Integers, Sequences, FiniteSets, TLC

VARIABLES
    allNews,        \* useState<NewsItem[]>([])                page.tsx:19
    isLoading,      \* useState(true)                          page.tsx:21
    isLoadingMore,  \* useState(false)                         page.tsx:22
    error,          \* useState<string|null>(null)             page.tsx:23
    hasMore,        \* useState(true)                          page.tsx:24
    page,           \* useState(1)                             page.tsx:25
    prevNewsIds,    \* prevNewsIdsRef.current                  page.tsx:35
    pendingInit,    \* loadInitialData calls awaiting fetchLatestNews
    pendingMore,    \* loadMoreData calls awaiting fetchMoreNews (with their closure)
    calls,          \* number of fetches issued so far
    notifyLog,      \* arguments of the notifyNewFlash calls made so far
    lastOp,         \* the step taken last, with the locals it computed (observation only)
    req,            \* one ApiClient.request() call
    adapted,        \* the adaptApiDataToNewsItem calls made so far: item, time, id and sentiment given
    upstream,       \* "varies": each request is answered in any way; "down": every request fails
    hist,           \* counts kept of the steps taken so far (observation only)
    sound           \* NotificationProvider: settings, soundsLoaded, and the notifyNewFlash
                    \* call of the last step with the sound it played

vars == <<allNews, isLoading, isLoadingMore, error, hasMore, page, prevNewsIds,
          pendingInit, pendingMore, calls, notifyLog, lastOp, req, adapted, upstream, hist, sound>>

feedVars == <<allNews, isLoading, isLoadingMore, error, hasMore, page, prevNewsIds,
              pendingInit, pendingMore, calls, notifyLog, lastOp, upstream, hist>>

----------------------------------------------------------------------------
(* Bounds of the model *)

\* upstream flash ids 1..MaxId appear in arbitrary order at the head of a page
MaxId == 1
\* length of the arbitrary head of an upstream page
MaxHead == 1
\* fetches issued in one behaviour
MaxCalls == 3
\* loadInitialData calls in flight together
MaxInFlight == 2

\* largest value of options.retries passed to request()
MaxRetriesOpt == 2

\* fetches issued in one behaviour while the upstream is down
MaxFallbackCalls == 7

\* largest count passed to notifyNewFlash
MaxCount == 2

\* adaptApiDataToNewsItem calls in one behaviour, and the latest value of Date.now()
MaxAdapted == 3
MaxNow == 1

(* Program constants *)

ITEMS_PER_PAGE == 20
MOCK_TOTAL == 100
NumTemplates == 5

----------------------------------------------------------------------------
(* Helpers on sequences *)

Range(s) == {s[i] : i \in 1..Len(s)}

Ids(s) == {s[i].id : i \in 1..Len(s)}

SeqsUpTo(S, n) == UNION {[1..k -> S] : k \in 0..n}

----------------------------------------------------------------------------
(* newsService.ts.  The Chinese string literals of the source are written  *)
(* in pinyin: jiji, lihao (positive markers), xiaoji, likong (negative      *)
(* markers), zhongdaxianji (the high-priority category), jiaodian (the     *)
(* focus marker looked for inside tags).                                    *)

\* The free-text sentiment of upstream item i, as the set of markers it contains.
SentimentText(i) ==
    CASE i % 4 = 0 -> {}
      [] i % 4 = 1 -> {"jiji"}
      [] i % 4 = 2 -> {"likong"}
      [] OTHER     -> {"lihao", "xiaoji"}

\* flash_id missing or the empty string: the values of the optional string
\* that are falsy
NoFlashId == 0

\* An upstream item (ApiFlashData) with flash id i.
RawItem(i) ==
    [flash_id  |-> i,
     sentiment |-> SentimentText(i),
     category  |-> IF i % 3 = 2 THEN "zhongdaxianji" ELSE "zonghezixun",
     tags      |-> IF i % 5 = 3 THEN <<"jiaodian-guanzhu">> ELSE <<"hongguan">>]

\* The same item as RawItem(i), sent without its flash_id.
RawItemNoId(i) == [RawItem(i) EXCEPT !.flash_id = NoFlashId]

\* apiData.flash_id || `temp-${Date.now()}`
AdaptedId(apiData, now) ==
    IF apiData.flash_id # NoFlashId THEN <<"flash", apiData.flash_id>> ELSE <<"temp", now>>

\* now is the value of Date.now() during the call
adaptApiDataToNewsItem(apiData, now) ==
    LET sentiment ==
            IF apiData.sentiment = {} THEN "neutral"
            ELSE IF "jiji" \in apiData.sentiment \/ "lihao" \in apiData.sentiment
                 THEN "positive"
            ELSE IF "xiaoji" \in apiData.sentiment \/ "likong" \in apiData.sentiment
                 THEN "negative"
            ELSE "neutral"
    IN  [id        |-> AdaptedId(apiData, now),
         sentiment |-> sentiment,
         tags      |-> apiData.tags,
         category  |-> apiData.category]

MockTemplate(k) ==
    CASE k = 0 -> [sentiment |-> "positive", category |-> "zhengcedongtai", tags |-> <<"xinnengyuanqiche", "zhengcelihao", "chanyelian">>]
      [] k = 1 -> [sentiment |-> "neutral",  category |-> "hangyequshi", tags |-> <<"bandaoti", "kucunzhouqi", "dianziyuanqijian">>]
      [] k = 2 -> [sentiment |-> "positive", category |-> "zhengcedongtai", tags |-> <<"yanghangzhengce", "huobikuansong", "yinhangye">>]
      [] k = 3 -> [sentiment |-> "negative", category |-> "gongsidongtai", tags |-> <<"yiyaoshengwu", "linchuangshiyan", "yanfa">>]
      [] OTHER -> [sentiment |-> "positive", category |-> "zhongdaxianji", tags |-> <<"AI-xinpian", "jishutupo", "gaoxingnengjisuan">>]

RECURSIVE MockLoop(_, _, _, _)
MockLoop(i, startIndex, limit, result) ==
    IF i >= limit \/ startIndex + i >= MOCK_TOTAL THEN result
    ELSE LET itemIndex == startIndex + i
             template  == MockTemplate(itemIndex % NumTemplates)
         IN  MockLoop(i + 1, startIndex, limit,
                      Append(result, [id        |-> <<"mock", itemIndex + 1>>,
                                      sentiment |-> template.sentiment,
                                      tags      |-> template.tags,
                                      category  |-> template.category]))

\* the page number taken as the start index
generatePaginatedMockData_StartsAtPage(pg, limit) == MockLoop(0, pg, limit, <<>>)

\* const startIndex = page * limit, then the loop
generatePaginatedMockData(pg, limit) == MockLoop(0, pg * limit, limit, <<>>)

\* The well-behaved rest of a page: the n items that follow offset skip of a
\* feed of distinct items, newest (highest flash id) first.
Filler(skip, n) == [j \in 1..n |-> RawItem(MaxId + skip + (n - j + 1))]

\* The head of a page: any sequence of at most MaxHead of the flash ids
\* 1..MaxId, or one of them twice (a page that repeats an id inside itself).
Heads == SeqsUpTo(1..MaxId, MaxHead) \cup {<<i, i>> : i \in 1..MaxId}

RawHead(h) == [j \in 1..Len(h) |-> RawItem(h[j])]

\* What the upstream may answer to GET /flashes/latest/?skip=..&limit=..
\*   "fail"  : apiClient.get threw (all attempts of request() failed)
\*   "empty" : the payload is absent, not an array, or an empty array
\*   "ok"    : a non-empty array of items
FailAnswer == [kind |-> "fail", items |-> <<>>]

UpstreamAnswers(skip, limit) ==
    {FailAnswer, [kind |-> "empty", items |-> <<>>]}
    \cup {[kind |-> "ok", items |-> RawHead(h) \o Filler(skip, limit - Len(h))] : h \in Heads}
    \cup {[kind |-> "ok", items |-> RawHead(h)] : h \in Heads \ {<<>>}}

\* The items of the pages above all carry a flash_id, so the time at which
\* they are adapted is not read; it is taken as 0.
fetchNewsData(skip, limit, answer) ==
    IF answer.kind = "ok"
    THEN [j \in 1..Len(answer.items) |-> adaptApiDataToNewsItem(answer.items[j], 0)]
    ELSE generatePaginatedMockData(skip \div limit, limit)

fetchLatestNews(itemsPerPage, answer) == fetchNewsData(0, itemsPerPage, answer)

fetchMoreNews(pg, itemsPerPage, answer) == fetchNewsData(pg * itemsPerPage, itemsPerPage, answer)

\* the pages a behaviour can ask for: page goes up by at most one per fetch
MaxPage == IF MaxCalls > MaxFallbackCalls THEN MaxCalls ELSE MaxFallbackCalls

\* The answers the upstream can give to the request for page pg, and the
\* results of the two fetchers on them, tabulated once: the fetchers are pure
\* in (page, answer), so the handlers below look their result up here.
AnswersAt == [pg \in 0..MaxPage |-> UpstreamAnswers(pg * ITEMS_PER_PAGE, ITEMS_PER_PAGE)]

LatestNewsOf == [answer \in AnswersAt[0] |-> fetchLatestNews(ITEMS_PER_PAGE, answer)]

MoreNewsOf == [pg \in 0..MaxPage |-> [answer \in AnswersAt[pg] |-> fetchMoreNews(pg, ITEMS_PER_PAGE, answer)]]

----------------------------------------------------------------------------
(* app/page.tsx *)

NoError == "null"

NoValue == [kind |-> "none"]

\* the tags that contain the focus marker (tag.includes)
FocusTags == {"jiaodian", "jiaodian-guanzhu"}

IsImportant(item) ==
    \/ item.category = "zhongdaxianji"
    \/ \E t \in Range(item.tags) : t \in FocusTags

\* answer is the kind of the upstream answer the step consumed ("none" for a
\* step that consumed none)
Op(kind, answer, data, prev, delta, decision) ==
    [kind |-> kind, answer |-> answer, data |-> data, prev |-> prev, delta |-> delta,
     decision |-> decision]

\* const defaultSettings (volume left out), no sound loaded, no call made
DefaultSettings ==
    [soundEnabled |-> TRUE, notifyOnlyImportant |-> FALSE, notifyOnSentiment |-> "all",
     soundType |-> "normal"]

NoSound ==
    [settings |-> DefaultSettings, loaded |-> [normal |-> FALSE, important |-> FALSE],
     last |-> NoValue]

\* inits: loadInitialData calls made; newestDone: the latest-issued
\* loadInitialData call among those that have completed; appended: loadMoreData
\* calls that appended records since allNews was last set by loadInitialData
NoHistory == [inits |-> 0, newestDone |-> 0, appended |-> 0]

\* the fetches one behaviour may issue
CallCap == IF upstream = "down" THEN MaxFallbackCalls ELSE MaxCalls

Init ==
    /\ allNews = <<>>
    /\ isLoading = TRUE
    /\ isLoadingMore = FALSE
    /\ error = NoError
    /\ hasMore = TRUE
    /\ page = 1
    /\ prevNewsIds = {}
    /\ pendingInit = {}
    /\ pendingMore = {}
    /\ calls = 0
    /\ notifyLog = <<>>
    /\ lastOp = Op("mount", "none", <<>>, {}, <<>>, NoValue)
    /\ req = [pc |-> "idle"]
    /\ adapted = <<>>
    /\ upstream = "varies"
    /\ hist = NoHistory
    /\ sound = NoSound

\* loadInitialData up to its await (mount effect, handleRefresh)
LoadInitialDataCall ==
    /\ calls < CallCap
    /\ Cardinality(pendingInit) < MaxInFlight
    /\ isLoading' = TRUE
    /\ error' = NoError
    /\ page' = 1
    /\ calls' = calls + 1
    /\ pendingInit' = pendingInit \cup {calls + 1}
    /\ lastOp' = Op("initCall", "none", <<>>, {}, <<>>, NoValue)
    /\ hist' = [hist EXCEPT !.inits = @ + 1]
    /\ UNCHANGED <<allNews, isLoadingMore, hasMore, prevNewsIds, pendingMore, notifyLog, req, adapted, sound, upstream>>

\* the size test left out: the first load is compared against the empty snapshot
IsNotFirstLoad_Always(prevIds) == TRUE

\* if (prevIds.size > 0)
IsNotFirstLoad(prevIds) == Cardinality(prevIds) > 0

\* the negation left out of the filter
NewItemsSince_KeepsSeen(newsData, prevIds) == SelectSeq(newsData, LAMBDA item : item.id \in prevIds)

\* newsData.filter(item => !prevIds.has(item.id))
NewItemsSince(newsData, prevIds) == SelectSeq(newsData, LAMBDA item : item.id \notin prevIds)

\* the sentiment taken from the last new record instead of the first
Decision_LastSentiment(newItems) ==
    [count        |-> Len(newItems),
     hasImportant |-> \E k \in 1..Len(newItems) : IsImportant(newItems[k]),
     sentiment    |-> newItems[Len(newItems)].sentiment]

\* the arguments of notifyNewFlash
Decision(newItems) ==
    [count        |-> Len(newItems),
     hasImportant |-> \E k \in 1..Len(newItems) : IsImportant(newItems[k]),
     sentiment    |-> newItems[1].sentiment]

\* loadInitialData from the resolution of fetchLatestNews to the end
LoadInitialDataDone(c, answer) ==
    /\ c \in pendingInit
    /\ LET newsData   == LatestNewsOf[answer]
           currentIds == Ids(newsData)
           prevIds    == prevNewsIds
           newItems   == NewItemsSince(newsData, prevIds)
           notifies   == IsNotFirstLoad(prevIds) /\ Len(newItems) > 0
       IN  /\ notifyLog' = IF notifies THEN Append(notifyLog, Decision(newItems)) ELSE notifyLog
           /\ prevNewsIds' = currentIds
           /\ allNews' = newsData
           /\ hasMore' = (Len(newsData) >= ITEMS_PER_PAGE)
           /\ lastOp' = Op("initDone", answer.kind, newsData, prevIds, newItems,
                           IF notifies THEN Decision(newItems) ELSE NoValue)
    /\ isLoading' = FALSE
    /\ pendingInit' = pendingInit \ {c}
    /\ hist' = [hist EXCEPT !.newestDone = IF c > @ THEN c ELSE @, !.appended = 0]
    /\ UNCHANGED <<isLoadingMore, error, page, pendingMore, calls, req, adapted, sound, upstream>>

\* the hasMore test left out of the guard
LoadMoreReturnsEarly_IgnoresHasMore(loadingMore, more) == loadingMore

\* if (isLoadingMore || !hasMore) return;
LoadMoreReturnsEarly(loadingMore, more) == loadingMore \/ ~more

\* loadMoreData up to its await (IntersectionObserver callback on the last card).
\* The sentinel card exists only when some card is rendered.
LoadMoreDataCall ==
    /\ Len(allNews) > 0
    /\ IF LoadMoreReturnsEarly(isLoadingMore, hasMore)
       THEN /\ lastOp' = Op("moreDropped", "none", <<>>, {}, <<>>, NoValue)
            /\ UNCHANGED <<allNews, isLoading, isLoadingMore, error, hasMore, page,
                           prevNewsIds, pendingInit, pendingMore, calls, notifyLog, req, adapted, sound, upstream,
                           hist>>
       ELSE /\ calls < CallCap
            /\ isLoadingMore' = TRUE
            /\ calls' = calls + 1
            /\ pendingMore' = pendingMore \cup
                    {[call |-> calls + 1, page |-> page, existingIds |-> Ids(allNews)]}
            /\ lastOp' = Op("moreCall", "none", <<>>, {}, <<>>, NoValue)
            /\ UNCHANGED <<allNews, isLoading, error, hasMore, page, prevNewsIds,
                           pendingInit, notifyLog, req, adapted, sound, upstream, hist>>

\* newItems.filter(item => !existingIds.has(item.id))
UniqueNewItems(newItems, existingIds) ==
    SelectSeq(newItems, LAMBDA item : item.id \notin existingIds)

\* the new records put in front of the previous ones
MergeMore_Prepends(prev, uniqueNewItems) == uniqueNewItems \o prev

\* setAllNews(prev => [...prev, ...uniqueNewItems])
MergeMore(prev, uniqueNewItems) == prev \o uniqueNewItems

\* the ids appended by a loadMore added to the snapshot
SnapshotAfterMore_Absorbs(prevIds, uniqueNewItems) == prevIds \cup Ids(uniqueNewItems)

\* prevNewsIdsRef.current across loadMoreData, which never assigns it
SnapshotAfterMore(prevIds, uniqueNewItems) == prevIds

\* loadMoreData from the resolution of fetchMoreNews to the end.  m.page and
\* m.existingIds are the page and the ids of allNews of the render in which
\* the call was made.
LoadMoreDataDone(m, answer) ==
    /\ m \in pendingMore
    /\ LET newItems       == MoreNewsOf[m.page][answer]
           existingIds    == m.existingIds
           uniqueNewItems == UniqueNewItems(newItems, existingIds)
       IN  /\ IF Len(newItems) = 0
              THEN /\ hasMore' = FALSE
                   /\ UNCHANGED <<allNews, page, hist>>
              ELSE IF Len(uniqueNewItems) = 0
              THEN /\ hasMore' = FALSE
                   /\ UNCHANGED <<allNews, page, hist>>
              ELSE /\ allNews' = MergeMore(allNews, uniqueNewItems)
                   /\ page' = page + 1
                   /\ hist' = [hist EXCEPT !.appended = @ + 1]
                   /\ hasMore' = (Len(uniqueNewItems) >= ITEMS_PER_PAGE)
           /\ prevNewsIds' = SnapshotAfterMore(prevNewsIds, uniqueNewItems)
           /\ lastOp' = Op("moreDone", answer.kind, newItems, existingIds, uniqueNewItems, NoValue)
    /\ isLoadingMore' = FALSE
    /\ pendingMore' = pendingMore \ {m}
    /\ UNCHANGED <<isLoading, error, pendingInit, calls, notifyLog, req, adapted, sound, upstream>>

\* the answers to the request for page pg in the current behaviour
AnswersFor(pg) == IF upstream = "down" THEN {FailAnswer} ELSE AnswersAt[pg]

Next ==
    \/ LoadInitialDataCall
    \/ \E c \in pendingInit : \E answer \in AnswersFor(0) :
           LoadInitialDataDone(c, answer)
    \/ LoadMoreDataCall
    \/ \E m \in pendingMore : \E answer \in AnswersFor(m.page) :
           LoadMoreDataDone(m, answer)

Spec == Init /\ [][Next]_vars

\* The same program while the upstream is down
InitFallback ==
    /\ allNews = <<>>
    /\ isLoading = TRUE
    /\ isLoadingMore = FALSE
    /\ error = NoError
    /\ hasMore = TRUE
    /\ page = 1
    /\ prevNewsIds = {}
    /\ pendingInit = {}
    /\ pendingMore = {}
    /\ calls = 0
    /\ notifyLog = <<>>
    /\ lastOp = Op("mount", "none", <<>>, {}, <<>>, NoValue)
    /\ req = [pc |-> "idle"]
    /\ adapted = <<>>
    /\ upstream = "down"
    /\ hist = NoHistory
    /\ sound = NoSound

SpecFallback == InitFallback /\ [][Next]_vars

----------------------------------------------------------------------------
(* adaptApiDataToNewsItem applied to the items of a feed over time *)

\* The items an upstream may send: items with a flash id, and the same items
\* without it; enough of them to carry each of the four sentiment texts.
AdaptInputs == {RawItem(i) : i \in 1..(MaxId + 3)} \cup {RawItemNoId(i) : i \in 1..(MaxId + 3)}

LastNow == IF adapted = <<>> THEN 0 ELSE adapted[Len(adapted)].now

InitAdapt == Init

\* data.map(adaptApiDataToNewsItem) reaches apiData when Date.now() is now
AdaptItem(apiData, now) ==
    /\ Len(adapted) < MaxAdapted
    /\ now >= LastNow
    /\ adapted' = Append(adapted, [item |-> apiData, now |-> now,
                                   id |-> adaptApiDataToNewsItem(apiData, now).id,
                                   sentiment |-> adaptApiDataToNewsItem(apiData, now).sentiment])
    /\ UNCHANGED <<feedVars, req, sound>>

NextAdapt == \E apiData \in AdaptInputs : \E now \in 0..MaxNow : AdaptItem(apiData, now)

SpecAdapt == InitAdapt /\ [][NextAdapt]_vars

----------------------------------------------------------------------------
(* NotificationProvider (contexts/NotificationContext) *)

Sentiments == {"positive", "negative", "neutral"}

SoundTypes == {"normal", "important"}

\* NotificationSettings, volume left out
Settings ==
    [soundEnabled : BOOLEAN, notifyOnlyImportant : BOOLEAN,
     notifyOnSentiment : {"all"} \cup Sentiments, soundType : SoundTypes]

\* useState initialiser of settings: the saved settings or the default ones
InitNotify ==
    /\ allNews = <<>>
    /\ isLoading = TRUE
    /\ isLoadingMore = FALSE
    /\ error = NoError
    /\ hasMore = TRUE
    /\ page = 1
    /\ prevNewsIds = {}
    /\ pendingInit = {}
    /\ pendingMore = {}
    /\ calls = 0
    /\ notifyLog = <<>>
    /\ lastOp = Op("mount", "none", <<>>, {}, <<>>, NoValue)
    /\ req = [pc |-> "idle"]
    /\ adapted = <<>>
    /\ upstream = "varies"
    /\ hist = NoHistory
    /\ \E saved \in Settings : sound = [NoSound EXCEPT !.settings = saved]

\* updateSettings(newSettings), seen through the settings that result
UpdateSettings(newSettings) ==
    /\ sound' = [sound EXCEPT !.settings = newSettings, !.last = NoValue]
    /\ UNCHANGED <<feedVars, req, adapted>>

\* the 'canplaythrough' (isLoaded) and 'error' (~isLoaded) listeners of an audio element
SoundLoadEvent(type, isLoaded) ==
    /\ sound' = [sound EXCEPT !.loaded[type] = isLoaded, !.last = NoValue]
    /\ UNCHANGED <<feedVars, req, adapted>>

\* the sound played by playTestSound(type): "none" when it returns before play()
playTestSound(settings, loaded, type) ==
    IF ~settings.soundEnabled THEN "none"
    ELSE IF ~loaded[type] THEN "none"
    ELSE type

\* the important sound for every delta that has an important record
ChosenSound_IgnoresSoundType(settings, hasImportant) ==
    IF hasImportant THEN "important" ELSE "normal"

\* const soundType = (hasImportant && settings.soundType === 'important') ? 'important' : 'normal'
ChosenSound(settings, hasImportant) ==
    IF hasImportant /\ settings.soundType = "important" THEN "important" ELSE "normal"

\* the sound played by notifyNewFlash(count, hasImportant, sentiment)
notifyNewFlash(settings, loaded, count, hasImportant, sentiment) ==
    IF count <= 0 \/ ~settings.soundEnabled THEN "none"
    ELSE IF settings.notifyOnSentiment # "all" /\ settings.notifyOnSentiment # sentiment THEN "none"
    ELSE IF settings.notifyOnlyImportant /\ ~hasImportant THEN "none"
    ELSE LET soundType == ChosenSound(settings, hasImportant)
         IN  IF ~loaded[soundType] THEN "none"
             ELSE playTestSound(settings, loaded, soundType)

NotifyNewFlash(count, hasImportant, sentiment) ==
    /\ sound' = [sound EXCEPT !.last =
                    [count |-> count, hasImportant |-> hasImportant, sentiment |-> sentiment,
                     played |-> notifyNewFlash(sound.settings, sound.loaded, count,
                                               hasImportant, sentiment)]]
    /\ UNCHANGED <<feedVars, req, adapted>>

NextNotify ==
    \/ \E newSettings \in Settings : UpdateSettings(newSettings)
    \/ \E type \in SoundTypes : \E isLoaded \in BOOLEAN : SoundLoadEvent(type, isLoaded)
    \/ \E count \in (-1)..MaxCount : \E hasImportant \in BOOLEAN : \E sentiment \in Sentiments :
           NotifyNewFlash(count, hasImportant, sentiment)

SpecNotify == InitNotify /\ [][NextNotify]_vars

----------------------------------------------------------------------------
(* lib/config.ts and lib/apiClient.ts *)

ApiTimeout == 10000
ApiRetryAttempts == 3
ApiRetryDelay == 1000
MarketTimeout == 5000
MarketRetries == 1

\* apiClient and marketApiClient
Clients ==
    {[name |-> "apiClient", defaultTimeout |-> ApiTimeout, defaultRetries |-> ApiRetryAttempts],
     [name |-> "marketApiClient", defaultTimeout |-> MarketTimeout, defaultRetries |-> MarketRetries]}

\* An optional field is <<>> when absent and <<v>> when it has the value v.
Absent == <<>>

\* The options of one request() call.  retryDelay is not a field that
\* request() reads: a value passed for it lands in fetchOptions.
RequestOptions ==
    [retries    : {Absent} \cup {<<n>> : n \in (-1)..MaxRetriesOpt},
     retryDelay : {Absent, <<500>>}]

\* How long, in ms, a fetch takes to settle and a body takes to be read:
\* well inside every timeout, or beyond every timeout.
Durations == {100, 20000}

\* What the network does to one attempt: whether and when fetch() settles if
\* nothing aborts it, the status of the response, and whether and when the
\* read of the body (response.text() / response.json()) settles.
AttemptRuns ==
    [fetch : {"resolve", "reject"}, status : {200, 404, 500}, fetchMs : Durations,
     bodyOk : BOOLEAN, bodyMs : Durations]

\* One pass through the try block on the run: the timer armed by setTimeout
\* aborts a fetch still pending after timeout ms; a fetch that settles first
\* rejects (network failure) or resolves, and on resolution clearTimeout runs
\* before the body is read.  elapsed is the time from the creation of the
\* controller to the end of the try block, response the status of the
\* response fetch resolved with (0 when it resolved with none), status the
\* status carried by the ApiError thrown for a non-2xx response.
AttemptOutcome(run, timeout) ==
    IF run.fetchMs >= timeout
    THEN [kind |-> "abort", status |-> 0, response |-> 0, elapsed |-> timeout] \* by its own timer
    ELSE IF run.fetch = "reject"
    THEN [kind |-> "network", status |-> 0, response |-> 0, elapsed |-> run.fetchMs]
    ELSE IF ~run.bodyOk
    THEN [kind |-> "parse", status |-> 0, response |-> run.status,
          elapsed |-> run.fetchMs + run.bodyMs]
    ELSE IF run.status = 200
    THEN [kind |-> "ok", status |-> 200, response |-> 200, elapsed |-> run.fetchMs + run.bodyMs]
    ELSE [kind |-> "http", status |-> run.status, response |-> run.status,
          elapsed |-> run.fetchMs + run.bodyMs]

\* How one attempt can end: fetch resolved with a 2xx response whose body
\* decodes; fetch resolved with a non-2xx response; fetch rejected (network
\* failure); the attempt's controller aborted the fetch; the read of the
\* body threw.
AttemptOutcomes(timeout) == {AttemptOutcome(run, timeout) : run \in AttemptRuns}

InitRequest ==
    /\ allNews = <<>>
    /\ isLoading = TRUE
    /\ isLoadingMore = FALSE
    /\ error = NoError
    /\ hasMore = TRUE
    /\ page = 1
    /\ prevNewsIds = {}
    /\ pendingInit = {}
    /\ pendingMore = {}
    /\ calls = 0
    /\ notifyLog = <<>>
    /\ lastOp = Op("mount", "none", <<>>, {}, <<>>, NoValue)
    /\ req = [pc |-> "idle"]
    /\ adapted = <<>>
    /\ upstream = "varies"
    /\ hist = NoHistory
    /\ sound = NoSound

\* request(): destructuring of the options, up to the for loop.  timers is
\* the attempts whose timer is armed (request 1 is this call), aborted the
\* controllers on which a timer that outlived its attempt has called abort(),
\* exposed the controllers whose fetch was pending when such a timer fired,
\* firedAfterReturn whether one fired after the call had returned, and other
\* the state of a second request() call (request 2) that runs meanwhile.
RequestStart(client, options) ==
    /\ req.pc = "idle"
    /\ LET timeout == client.defaultTimeout
           retries == IF options.retries = Absent THEN client.defaultRetries ELSE options.retries[1]
       IN  req' = [pc       |-> "loop",
                   client   |-> client.name,
                   options  |-> options,
                   timeout  |-> timeout,
                   retries  |-> retries,
                   attempt  |-> 0,
                   issued   |-> 0,
                   outcomes |-> <<>>,
                   waits    |-> <<>>,
                   result   |-> NoValue,
                   thrown   |-> NoValue,
                   timers   |-> {},
                   aborted  |-> {},
                   exposed  |-> {},
                   firedAfterReturn |-> FALSE,
                   other    |-> "none"]
    /\ UNCHANGED <<feedVars, adapted, sound>>

\* the response.ok test left out
AttemptSucceeds_IgnoresStatus(outcome) == outcome.kind \in {"ok", "http"}

\* the try block runs to its return
AttemptSucceeds(outcome) == outcome.kind = "ok"

\* if (attempt === retries)
IsLastAttempt(attempt, retries) == attempt = retries

\* every caught error wrapped in a new ApiError of status 0
FinalError_AlwaysWraps(outcome) == [kind |-> "ApiError", status |-> 0, details |-> outcome.kind]

\* The ApiError thrown at the last attempt for the error caught there
FinalError(outcome) ==
    IF outcome.kind = "http"
    THEN [kind |-> "ApiError", status |-> outcome.status, details |-> "body"]
    ELSE [kind |-> "ApiError", status |-> 0, details |-> outcome.kind]

\* the same delay before every retry
BackoffDelay_Constant(attempt) == ApiRetryDelay

\* config.api.retryDelay * (attempt + 1)
BackoffDelay(attempt) == ApiRetryDelay * (attempt + 1)

\* one controller for every attempt of every request
ControllerOf_Shared(request, attempt) == <<0, 0>>

\* const controller = new AbortController(), inside the try block of the
\* loop: a controller of its own for each attempt of each request() call
ControllerOf(request, attempt) == <<request, attempt>>

\* The head of an iteration of the for loop: the controller is created, the
\* timer armed and fetch called
RequestAttemptBegin ==
    /\ req.pc = "loop"
    /\ req.attempt <= req.retries
    /\ req' = [req EXCEPT !.pc = "fetching", !.timers = @ \cup {<<1, req.attempt>>}]
    /\ UNCHANGED <<feedVars, adapted, sound>>

\* the controllers whose fetch is pending
PendingControllers ==
    (IF req.pc = "fetching" THEN {ControllerOf(1, req.attempt)} ELSE {}) \cup
    (IF req.other = "fetching" THEN {ControllerOf(2, 0)} ELSE {})

\* A timer whose attempt has ended fires: () => controller.abort(), on the
\* controller its closure holds.  (The timer of the attempt in flight is
\* part of that attempt's outcome.)
LateTimerFires(timer) ==
    /\ req.pc # "idle"
    /\ timer \in req.timers
    /\ ~(req.pc = "fetching" /\ timer = <<1, req.attempt>>)
    /\ req' = [req EXCEPT !.timers = @ \ {timer},
                          !.aborted = @ \cup {ControllerOf(timer[1], timer[2])},
                          !.exposed = @ \cup PendingControllers,
                          !.firedAfterReturn = @ \/ req.pc = "returned"]
    /\ UNCHANGED <<feedVars, adapted, sound>>

\* A second request() call, made while this one runs or after it: the head
\* of its first iteration
OtherRequestBegin ==
    /\ req.pc # "idle"
    /\ req.other = "none"
    /\ req' = [req EXCEPT !.other = "fetching"]
    /\ UNCHANGED <<feedVars, adapted, sound>>

\* Its fetch settles: fulfilled by a 200 response in time (clearTimeout
\* runs, the payload is returned), unless abort() was called on its controller
OtherRequestSettles ==
    /\ req.pc # "idle"
    /\ req.other = "fetching"
    /\ req' = [req EXCEPT !.other = IF ControllerOf(2, 0) \in req.aborted
                                    THEN "aborted" ELSE "returned"]
    /\ UNCHANGED <<feedVars, adapted, sound>>

\* How the attempt in flight can end: as the network makes it end, unless
\* abort() has been called on its controller, which rejects its fetch at once.
InFlightOutcomes ==
    IF ControllerOf(1, req.attempt) \in req.aborted
    THEN {[kind |-> "aborted-by-late-timer", status |-> 0, response |-> 0, elapsed |-> 0]}
    ELSE AttemptOutcomes(req.timeout)

\* The rest of the iteration: the try block from the settling of fetch and,
\* when it throws, the catch block up to its throw or its await of delay().
\* clearTimeout is reached only when fetch resolved; the timer that aborted
\* its own attempt has fired.
RequestAttempt(outcome) ==
    /\ req.pc = "fetching"
    /\ LET base == [req EXCEPT !.issued = @ + 1, !.outcomes = Append(@, outcome),
                               !.timers = IF outcome.kind \in {"network", "aborted-by-late-timer"}
                                          THEN @ ELSE @ \ {<<1, req.attempt>>}]
       IN  req' =
             IF AttemptSucceeds(outcome)
             THEN [base EXCEPT !.pc = "returned",
                               !.result = [kind |-> "payload", attempt |-> req.attempt]]
             ELSE IF IsLastAttempt(req.attempt, req.retries)
             THEN [base EXCEPT !.pc = "thrown", !.thrown = FinalError(outcome)]
             ELSE [base EXCEPT !.pc = "delay",
                               !.waits = Append(@, BackoffDelay(req.attempt))]
    /\ UNCHANGED <<feedVars, adapted, sound>>

\* delay() resolves: attempt++
RequestDelayElapsed ==
    /\ req.pc = "delay"
    /\ req' = [req EXCEPT !.pc = "loop", !.attempt = @ + 1]
    /\ UNCHANGED <<feedVars, adapted, sound>>

\* the for loop ends without having returned or thrown
RequestLoopExit ==
    /\ req.pc = "loop"
    /\ ~(req.attempt <= req.retries)
    /\ req' = [req EXCEPT !.pc = "thrown",
                          !.thrown = [kind |-> "ApiError", status |-> 0, details |-> "exceeded"]]
    /\ UNCHANGED <<feedVars, adapted, sound>>

NextRequest ==
    \/ \E client \in Clients : \E options \in RequestOptions : RequestStart(client, options)
    \/ RequestAttemptBegin
    \/ /\ req.pc = "fetching"
       /\ \E outcome \in InFlightOutcomes : RequestAttempt(outcome)
    \/ \E a \in 0..(ApiRetryAttempts + MaxRetriesOpt) : LateTimerFires(<<1, a>>)
    \/ OtherRequestBegin
    \/ OtherRequestSettles
    \/ RequestDelayElapsed
    \/ RequestLoopExit

SpecRequest == InitRequest /\ [][NextRequest]_vars

----------------------------------------------------------------------------
(* Properties of the pagination engine and the change detector (Spec) *)

\* C1: the cumulative records (allNews) never hold two elements with the
\* same id, whatever pages the upstream returned.
C1_DedupInvariant ==
    \A i, j \in 1..Len(allNews) : i # j => allNews[i].id # allNews[j].id

C3_ExhaustedIsNoOp ==
    [][(~hasMore /\ lastOp'.kind \in {"moreCall", "moreDropped"}) =>
         /\ lastOp'.kind = "moreDropped"
         /\ UNCHANGED <<allNews, page, hasMore, isLoadingMore, pendingMore, pendingInit, calls>>
    ]_vars

C3_Witness ==
    /\ lastOp.kind = "moreDropped"
    /\ ~hasMore
    /\ ~isLoadingMore
    /\ calls < MaxCalls

\* C4: at most one fetch, of either kind, is in flight at any time.
C4_SingleFlight ==
    Cardinality(pendingInit) + Cardinality(pendingMore) <= 1

\* C5: a loadFirstPage that completes while the prior identity snapshot is
\* empty calls notifyNewFlash for nothing it fetched.
C5_FirstLoadSilence ==
    [][(lastOp'.kind = "initDone" /\ prevNewsIds = {}) =>
         /\ notifyLog' = notifyLog
         /\ lastOp'.decision = NoValue
    ]_vars

C5_Witness ==
    /\ lastOp.kind = "initDone"
    /\ lastOp.prev = {}
    /\ Len(lastOp.data) > 0
    /\ notifyLog = <<>>

\* the k of S that has j elements of S up to it
NthOf(S, j) == CHOOSE k \in S : Cardinality({x \in S : x <= k}) = j

\* C6: the delta of a completed loadFirstPage is the fetched records whose id
\* is not in the previous snapshot, in fetch order; a decision carries the
\* size of the delta as its count; an empty delta produces no decision.
C6_DeltaCorrectness ==
    lastOp.kind = "initDone" =>
        LET D == {k \in 1..Len(lastOp.data) : lastOp.data[k].id \notin lastOp.prev}
        IN  /\ Len(lastOp.delta) = Cardinality(D)
            /\ \A j \in 1..Cardinality(D) : lastOp.delta[j] = lastOp.data[NthOf(D, j)]
            /\ D = {} => lastOp.decision = NoValue
            /\ (D # {} /\ lastOp.prev # {}) => lastOp.decision # NoValue
            /\ lastOp.decision # NoValue =>
                 /\ lastOp.decision.count = Cardinality(D)
                 /\ Len(notifyLog) > 0
                 /\ notifyLog[Len(notifyLog)] = lastOp.decision

C6_Witness ==
    /\ lastOp.kind = "initDone"
    /\ lastOp.prev # {}
    /\ lastOp.decision # NoValue
    /\ lastOp.decision.count > 1
    /\ lastOp.decision.count < Len(lastOp.data)

\* C7: a refresh never counts in its delta a record whose id was held in
\* records before the refresh, ids that arrived through loadMore included.
C7_NoRenotification ==
    [][(lastOp'.kind = "initDone" /\ lastOp'.decision # NoValue) =>
         \A k \in 1..Len(lastOp'.delta) : lastOp'.delta[k].id \notin Ids(allNews)
    ]_vars

----------------------------------------------------------------------------
(* Properties of the request client (SpecRequest) *)

\* the retries that apply to the request: its option or its client's default
MaxRetriesOf(r) ==
    IF r.options.retries # Absent THEN r.options.retries[1]
    ELSE IF r.client = "apiClient" THEN ApiRetryAttempts ELSE MarketRetries

RECURSIVE SumSeq(_)
SumSeq(q) == IF q = <<>> THEN 0 ELSE q[1] + SumSeq(Tail(q))

\* C8: a request() call issues at most maxRetries+1 attempts; no attempt
\* follows a successful one; the call returns exactly when its last attempt
\* completed with a success status and a decodable body (a non-success
\* status is a failed attempt), and it returns that attempt's payload.
C8_AttemptBound ==
    req.pc # "idle" =>
        /\ req.issued = Len(req.outcomes)
        /\ req.issued <= MaxRetriesOf(req) + 1
        /\ \A k \in 1..(Len(req.outcomes) - 1) : req.outcomes[k].kind # "ok"
        /\ req.pc = "returned" <=>
               (Len(req.outcomes) > 0 /\ req.outcomes[Len(req.outcomes)].kind = "ok")
        /\ req.pc = "returned" =>
               req.result = [kind |-> "payload", attempt |-> req.issued - 1]

C8_Witness ==
    /\ req.pc = "returned"
    /\ MaxRetriesOf(req) >= 1
    /\ req.issued = MaxRetriesOf(req) + 1
    /\ req.outcomes[1].kind = "http"

ConfiguredRetryDelay(r) ==
    IF r.options.retryDelay # Absent THEN r.options.retryDelay[1] ELSE ApiRetryDelay

C11_PerAttemptTimeout ==
    req.pc # "idle" =>
        \A k \in 1..Len(req.outcomes) :
            /\ req.outcomes[k].elapsed <= req.timeout
            /\ req.outcomes[k].elapsed >= req.timeout => req.outcomes[k].kind = "abort"
            /\ req.outcomes[k].kind = "abort" =>
                   IF k = MaxRetriesOf(req) + 1 THEN req.pc = "thrown" ELSE Len(req.waits) >= k

\* C28: a request() call made with retries >= 0 ends by returning the
\* payload or by throwing an ApiError; when the last attempt got a non-2xx
\* response the error carries the status of that response; when it failed
\* otherwise the error has status 0 and wraps the cause; the throw that
\* follows the loop is not reached.
C28_OnlyApiError ==
    (req.pc \in {"returned", "thrown"} /\ MaxRetriesOf(req) >= 0) =>
        LET last == req.outcomes[Len(req.outcomes)]
        IN  /\ req.pc = "returned" => (req.result.kind = "payload" /\ req.thrown = NoValue)
            /\ req.pc = "thrown" =>
                   /\ req.result = NoValue
                   /\ req.thrown.kind = "ApiError"
                   /\ req.thrown.details # "exceeded"
                   /\ last.response \notin {0, 200} => req.thrown.status = last.response
                   /\ last.response \in {0, 200} =>
                          (req.thrown.status = 0 /\ req.thrown.details = last.kind)

\* C30: every attempt has a controller and a timer of its own: a timer
\* still armed after its attempt is one whose fetch rejected, and when it
\* fires it aborts no later attempt of the request and no attempt of another
\* request, and leaves a returned request returned with its payload.
C30_TimerIsolation ==
    req.pc # "idle" =>
        /\ \A k \in 1..Len(req.outcomes) :
               /\ req.outcomes[k].kind # "aborted-by-late-timer"
               /\ req.outcomes[k].kind = "abort" => req.outcomes[k].elapsed = req.timeout
        /\ req.other # "aborted"
        /\ PendingControllers \cap req.aborted = {}
        /\ \A timer \in req.timers :
               \/ req.pc = "fetching" /\ timer = <<1, req.attempt>>
               \/ /\ timer[1] = 1
                  /\ timer[2] + 1 <= Len(req.outcomes)
                  /\ req.outcomes[timer[2] + 1].kind = "network"
        /\ req.pc = "returned" =>
               /\ req.result = [kind |-> "payload", attempt |-> req.attempt]
               /\ req.thrown = NoValue

\* timers of rejected attempts fired while a later attempt and the other
\* request were in flight and after the return; both requests returned
C30_Witness ==
    /\ req.pc = "returned"
    /\ req.other = "returned"
    /\ req.firedAfterReturn
    /\ {ControllerOf(1, req.attempt), ControllerOf(2, 0)} \subseteq req.exposed
    /\ req.attempt >= 2
    /\ req.timers = {}

----------------------------------------------------------------------------
(* Properties of the pagination engine under failing, empty and            *)
(* overlapping pages (Spec)                                                 *)

\* C12: a loadFirstPage or loadMore whose fetch failed (every attempt of the
\* request failed) completes leaving records and page as they were.
C12_FailureLeavesFeed ==
    [][(lastOp'.kind \in {"initDone", "moreDone"} /\ lastOp'.answer = "fail") =>
         /\ allNews' = allNews
         /\ page' = page
    ]_vars

\* C13: a loadMore whose fetch failed completes with hasMore false, so that
\* the next loadMore is dropped.
C13_FailedMoreHalts ==
    [][(lastOp'.kind = "moreDone" /\ lastOp'.answer = "fail") => ~hasMore']_vars

\* C14: when the upstream call failed, the fetcher hands no records to the
\* handler that awaited it and the handler observes the failure: the catch
\* branch of loadInitialData sets the error message and both catch branches
\* set hasMore to false.
C14_FetcherPropagates ==
    (lastOp.kind \in {"initDone", "moreDone"} /\ lastOp.answer = "fail") =>
        /\ lastOp.data = <<>>
        /\ ~hasMore
        /\ lastOp.kind = "initDone" => error # NoError

C17_FirstPageEffect ==
    (lastOp.kind = "initDone" /\ lastOp.answer = "ok") =>
        /\ allNews = lastOp.data
        /\ page = 1
        /\ ~hasMore <=> (Len(lastOp.data) < ITEMS_PER_PAGE)

\* C18: the step in which a loadMore completes on a page holding some id that
\* is not in records appends exactly the fetched records whose id is not in
\* records, advances page by one, and leaves hasMore false exactly when fewer
\* records than the page size were fetched (fetched, not appended).
C18_MoreEffect ==
    [][(/\ lastOp'.kind = "moreDone"
        /\ \E k \in 1..Len(lastOp'.data) : lastOp'.data[k].id \notin Ids(allNews)) =>
         /\ allNews' = allNews \o SelectSeq(lastOp'.data, LAMBDA item : item.id \notin Ids(allNews))
         /\ page' = page + 1
         /\ ~hasMore' <=> (Len(lastOp'.data) < ITEMS_PER_PAGE)
    ]_vars

\* C19: the step in which a loadMore completes on an empty upstream page, or
\* on a page all of whose ids are in records, leaves records and page as they
\* were and sets hasMore to false.
C19_NothingNew ==
    [][(/\ lastOp'.kind = "moreDone"
        /\ \/ lastOp'.answer = "empty"
           \/ /\ lastOp'.answer = "ok"
              /\ \A k \in 1..Len(lastOp'.data) : lastOp'.data[k].id \in Ids(allNews)) =>
         /\ allNews' = allNews
         /\ page' = page
         /\ ~hasMore'
    ]_vars

\* C20: whenever hasMore is false, the completion of a loadFirstPage on a
\* full page the upstream returned sets hasMore to true and leaves page at 1,
\* so that a loadMore invoked next (none being in flight) issues its fetch at
\* the offset of the second page.
C20_RecoveryByRefresh ==
    [][(/\ ~hasMore
        /\ lastOp'.kind = "initDone"
        /\ lastOp'.answer = "ok"
        /\ Len(lastOp'.data) >= ITEMS_PER_PAGE) =>
         /\ hasMore'
         /\ page' = 1
         /\ ~LoadMoreReturnsEarly(FALSE, hasMore')
    ]_vars

\* C21: the decision of a completed loadFirstPage has hasImportant true
\* exactly when some record of the delta is in the high-priority category or
\* has a tag containing the focus marker, and its sentiment is the sentiment
\* of the first record of the delta in fetch order.
C21_DeltaClassification ==
    (lastOp.kind = "initDone" /\ lastOp.decision # NoValue) =>
        /\ Len(lastOp.delta) > 0
        /\ lastOp.decision.hasImportant <=>
               \E k \in 1..Len(lastOp.delta) :
                   \/ lastOp.delta[k].category = "zhongdaxianji"
                   \/ \E t \in 1..Len(lastOp.delta[k].tags) :
                          lastOp.delta[k].tags[t] \in {"jiaodian", "jiaodian-guanzhu"}
        /\ lastOp.decision.sentiment = lastOp.delta[1].sentiment

C21_Witness ==
    /\ lastOp.kind = "initDone"
    /\ lastOp.decision # NoValue
    /\ lastOp.decision.count > 1
    /\ lastOp.decision.hasImportant
    /\ ~IsImportant(lastOp.delta[1])
    /\ \E k \in 1..Len(lastOp.delta) : lastOp.delta[k].sentiment # lastOp.decision.sentiment

\* C22: a loadFirstPage invoked while an earlier loadFirstPage is in flight
\* is dropped: it issues no fetch and changes no state.
C22_RefreshNotReentrant ==
    [][(pendingInit # {} /\ hist'.inits = hist.inits + 1) =>
         UNCHANGED <<calls, pendingInit, allNews, isLoading, error, hasMore, page, prevNewsIds>>
    ]_vars

\* C24: the response of a loadFirstPage that arrives after the response of a
\* loadFirstPage issued later has been applied overwrites nothing: records,
\* hasMore and the prior identity snapshot stay those of the later call.
C24_NewestRefreshWins ==
    [][(/\ lastOp'.kind = "initDone"
        /\ \E c \in pendingInit \ pendingInit' : c < hist.newestDone) =>
         UNCHANGED <<allNews, hasMore, prevNewsIds>>
    ]_vars

\* C25: whenever no fetch is in flight and a loadFirstPage has set the
\* records, the next offset (page times the page size) is the page size times
\* one plus the number of loadMore calls that appended records since the
\* records were last set by a loadFirstPage.
C25_CursorConsistency ==
    (pendingInit = {} /\ pendingMore = {} /\ hist.newestDone > 0) =>
        page * ITEMS_PER_PAGE = ITEMS_PER_PAGE * (1 + hist.appended)

\* C26: records never hold a synthetic record (id mock-N) together with a
\* record normalized from the upstream.
C26_NoMixing ==
    ~ \E i, j \in 1..Len(allNews) : allNews[i].id[1] = "mock" /\ allNews[j].id[1] = "flash"

----------------------------------------------------------------------------
(* Properties of the feed while the upstream is down (SpecFallback) *)

\* max(0, min(limit, MOCK_TOTAL - pg * limit))
MockPageSize(pg, limit) ==
    LET left == MOCK_TOTAL - pg * limit
    IN  IF left <= 0 THEN 0 ELSE IF left < limit THEN left ELSE limit

\* C27: while every upstream request fails, after one loadFirstPage and the
\* loadMore calls that followed it the records are the synthetic records
\* mock-1 .. mock-(20 x page), each once and in index order; hasMore becomes
\* false only with all 100 of them loaded, which it is once six fetches
\* have completed, and no seventh is issued; generatePaginatedMockData(pg,
\* limit) returns max(0, min(limit, 100 - pg x limit)) records, none at
\* offset 100.
C27_FallbackTerminates ==
    /\ \A pg \in 0..MaxPage : \A limit \in {ITEMS_PER_PAGE, 30} :
           Len(generatePaginatedMockData(pg, limit)) = MockPageSize(pg, limit)
    /\ (hist.inits = 1 /\ hist.newestDone > 0 /\ pendingMore = {}) =>
           /\ Len(allNews) = ITEMS_PER_PAGE * page
           /\ \A k \in 1..Len(allNews) : allNews[k].id = <<"mock", k>>
           /\ Len(allNews) <= MOCK_TOTAL
           /\ ~hasMore => Len(allNews) = MOCK_TOTAL
           /\ calls <= 6
           /\ calls = 6 => ~hasMore

C27_Witness ==
    /\ hist.inits = 1
    /\ pendingMore = {}
    /\ ~hasMore
    /\ Len(allNews) = MOCK_TOTAL
    /\ lastOp.kind = "moreDone"
    /\ lastOp.data = <<>>

----------------------------------------------------------------------------
(* Properties of the item adapter (SpecAdapt) *)

\* C16: adapting the same upstream item twice gives the same id, and two
\* distinct upstream items never get the same id, items sent without a
\* flash_id included.
C16_IdStableUnique ==
    \A i, j \in 1..Len(adapted) :
        /\ adapted[i].item = adapted[j].item => adapted[i].id = adapted[j].id
        /\ adapted[i].item # adapted[j].item => adapted[i].id # adapted[j].id

\* C23: a normalized record is positive only if the upstream sentiment text
\* carries a positive marker and no negative one, negative only if it carries
\* a negative marker and no positive one, and neutral when the text is
\* absent, carries no marker, or carries markers of both kinds.
C23_SentimentNormalization ==
    \A k \in 1..Len(adapted) :
        LET text == adapted[k].item.sentiment
            pos  == text \cap {"jiji", "lihao"} # {}
            neg  == text \cap {"xiaoji", "likong"} # {}
        IN  /\ adapted[k].sentiment = "positive" => (pos /\ ~neg)
            /\ adapted[k].sentiment = "negative" => (neg /\ ~pos)
            /\ (text = {} \/ (~pos /\ ~neg) \/ (pos /\ neg)) => adapted[k].sentiment = "neutral"

----------------------------------------------------------------------------
(* Properties of the notification policy (SpecNotify) *)

\* C29: notifyNewFlash(count, hasImportant, sentiment) plays a sound only if
\* count > 0, sound is enabled, the sentiment preference is 'all' or the
\* given sentiment, and the importance-only preference is off or hasImportant
\* holds; the sound is the important one only when hasImportant holds and
\* the configured sound type is 'important', otherwise the normal one; and
\* nothing is played when that sound is not loaded.
C29_NotificationPolicy ==
    sound.last # NoValue =>
        LET st     == sound.settings
            call   == sound.last
            chosen == IF call.hasImportant /\ st.soundType = "important"
                      THEN "important" ELSE "normal"
            passes == /\ call.count > 0
                      /\ st.soundEnabled
                      /\ st.notifyOnSentiment \in {"all", call.sentiment}
                      /\ ~st.notifyOnlyImportant \/ call.hasImportant
        IN  /\ call.played # "none" => passes
            /\ call.played # "none" => call.played = chosen
            /\ ~sound.loaded[chosen] => call.played = "none"
            /\ (passes /\ sound.loaded[chosen]) => call.played = chosen

C29_Witness ==
    /\ sound.last # NoValue
    /\ sound.last.played = "normal"
    /\ sound.last.hasImportant
    /\ sound.settings.notifyOnlyImportant
    /\ sound.settings.notifyOnSentiment = "negative"
    /\ sound.loaded["important"]

====
